---- MODULE Spec2Model ----
(***************************************************************************)
(* Oxidot: sparse-checkout rule engine (src/src/cluster/sparse.rs), the    *)
(* libgit2-backed deployer (src/src/cluster/deploy.rs) and the cluster     *)
(* verbs built on it (src/src/cluster.rs).                                 *)
(*                                                                         *)
(* Strings are sequences of byte values, so that the serialisation of the  *)
(* rule set (Display), its parsing (str::lines) and the gitignore pattern  *)
(* rewriting are computed on the bytes.                                    *)
(***************************************************************************)
EXTENDS Integers, Sequences, FiniteSets, TLC

\* ------------------------------------------------------------------------
\* Bytes that the code names.
\* ------------------------------------------------------------------------
NL    == 10      \* '\n'
Bang  == 33      \* '!'
Star  == 42      \* '*'
Slash == 47      \* '/'

\* ------------------------------------------------------------------------
\* Bounds of the model.
\* ------------------------------------------------------------------------
MaxRules   == 3   \* how many rules of AllRules the callers pass around
MaxPaths   == 2   \* how many paths of AllPaths exist for the cluster
MaxEditOps == 2   \* mutations one editor closure performs

\* The rules callers pass in: "/*", "a", "d/", "!d/f", "x".
AllRules ==
    << <<Slash, Star>>, <<97>>, <<100, Slash>>, <<Bang, 100, Slash, 102>>, <<120>> >>

\* The paths (relative to the work tree alias) the cluster may track:
\* "a", "d/f", "d/g".
AllPaths ==
    << <<97>>, <<100, Slash, 102>>, <<100, Slash, 103>> >>

Min(a, b) == IF a <= b THEN a ELSE b

RuleUniverse == { AllRules[i] : i \in 1..Min(MaxRules, Len(AllRules)) }
PathUniverse == { AllPaths[i] : i \in 1..Min(MaxPaths, Len(AllPaths)) }
RuleAll == <<Slash, Star>>      \* the rule "/*" of deploy_all

\* ------------------------------------------------------------------------
\* Byte strings.
\* ------------------------------------------------------------------------
StartsWith(s, c) == Len(s) > 0 /\ s[1] = c
EndsWith(s, c)   == Len(s) > 0 /\ s[Len(s)] = c
Contains(s, c)   == \E i \in 1..Len(s) : s[i] = c
Drop(s, n)       == SubSeq(s, n + 1, Len(s))

\* Ord for String: lexicographic on bytes, a proper prefix sorts first.
RECURSIVE StrLess(_, _)
StrLess(s, t) ==
    IF t = <<>> THEN FALSE
    ELSE IF s = <<>> THEN TRUE
    ELSE IF s[1] < t[1] THEN TRUE
    ELSE IF s[1] > t[1] THEN FALSE
    ELSE StrLess(Tail(s), Tail(t))

\* Vec::sort of a collection of distinct strings.
Least(S) == CHOOSE x \in S : \A y \in S \ {x} : StrLess(x, y)

\* The set's items in descending order: an iteration order that is not sorted.
Greatest(S) == CHOOSE x \in S : \A y \in S \ {x} : StrLess(y, x)

RECURSIVE SortDescending(_)
SortDescending(S) ==
    IF S = {} THEN <<>>
    ELSE <<Greatest(S)>> \o SortDescending(S \ {Greatest(S)})

RECURSIVE SortStrings(_)
SortStrings(S) ==
    IF S = {} THEN <<>>
    ELSE <<Least(S)>> \o SortStrings(S \ {Least(S)})

\* Split a byte string at every occurrence of sep; the pieces exclude sep.
RECURSIVE SplitAt(_, _, _)
SplitAt(s, sep, cur) ==
    IF s = <<>> THEN <<cur>>
    ELSE IF s[1] = sep THEN <<cur>> \o SplitAt(Tail(s), sep, <<>>)
    ELSE SplitAt(Tail(s), sep, Append(cur, s[1]))

\* str::lines: split at '\n'; the final line ending is optional, so a last
\* empty piece is not a line.
DropFinalEmpty(pieces) ==
    IF pieces[Len(pieces)] = <<>>
    THEN SubSeq(pieces, 1, Len(pieces) - 1)
    ELSE pieces

Lines(content) == DropFinalEmpty(SplitAt(content, NL, <<>>))

SeqToSet(s) == { s[i] : i \in 1..Len(s) }

\* ------------------------------------------------------------------------
\* SparsityEdit: the in-memory rule set with its dirty flag.
\* ------------------------------------------------------------------------
\* impl From<String> for SparsityEdit
FromContent(content) ==
    [rules |-> SeqToSet(Lines(content)), changed |-> FALSE]

\* insert_rule setting "changed" whether or not the rule is new.
insert_rule_flagging(e, rule) ==
    [rules |-> e.rules \cup {rule}, changed |-> TRUE]

insert_rule(e, rule) ==
    IF rule \notin e.rules
    THEN [rules |-> e.rules \cup {rule}, changed |-> TRUE]
    ELSE e

\* remove_rule without "self.changed = true".
remove_rule_unflagged(e, rule) == [e EXCEPT !.rules = @ \ {rule}]

remove_rule(e, rule) ==
    IF rule \in e.rules
    THEN [rules |-> e.rules \ {rule}, changed |-> TRUE]
    ELSE e

\* The next item of a rule list (the set holds no order: any one).
NextOf(R) == CHOOSE x \in R : TRUE

RECURSIVE insert_rules(_, _)
insert_rules(e, R) ==
    IF R = {} THEN e
    ELSE insert_rules(insert_rule(e, NextOf(R)), R \ {NextOf(R)})

RECURSIVE remove_rules(_, _)
remove_rules(e, R) ==
    IF R = {} THEN e
    ELSE remove_rules(remove_rule(e, NextOf(R)), R \ {NextOf(R)})

clear_rules(e) ==
    IF e.rules # {}
    THEN [rules |-> {}, changed |-> TRUE]
    ELSE e

\* impl Display for SparsityEdit
RECURSIVE JoinLines(_)
JoinLines(rs) ==
    IF rs = <<>> THEN <<>>
    ELSE rs[1] \o <<NL>> \o JoinLines(Tail(rs))

Display(e) ==
    IF e.rules = {} THEN <<>>
    ELSE JoinLines(SortStrings(e.rules))

\* An editor closure is a short program of mutations.
Ins(R) == [kind |-> "insert", rules |-> R]
Rem(R) == [kind |-> "remove", rules |-> R]
Clr    == [kind |-> "clear",  rules |-> {}]

Mutations ==
    { Ins(R) : R \in SUBSET RuleUniverse } \cup
    { Rem(R) : R \in SUBSET RuleUniverse } \cup { Clr }

SingleMutations ==
    { Ins({r}) : r \in RuleUniverse } \cup
    { Rem({r}) : r \in RuleUniverse } \cup { Clr }

\* One call of insert_rules, remove_rules or clear_rules, or up to MaxEditOps
\* calls of insert_rule, remove_rule and clear_rules in a row.
Editors ==
    { <<m>> : m \in Mutations } \cup
    UNION { [1..n -> SingleMutations] : n \in 2..MaxEditOps }

ApplyMutation(e, m) ==
    CASE m.kind = "insert" -> insert_rules(e, m.rules)
      [] m.kind = "remove" -> remove_rules(e, m.rules)
      [] OTHER             -> clear_rules(e)

RECURSIVE RunEditor(_, _)
RunEditor(e, prog) ==
    IF prog = <<>> THEN e
    ELSE RunEditor(ApplyMutation(e, prog[1]), Tail(prog))

\* SparsityDrafter::current_rules on a readable file.
current_rules(content) == Lines(content)

\* SparsityDrafter::edit.  access is the access the process has to the sparse
\* file: "rw", "r" (read only) or "none".  The outcome is the result, the
\* file content afterwards and whether fs::write was called.
WriteBack(content, access, rules) ==
    IF ~rules.changed
    THEN [res |-> "Ok", file |-> content, wrote |-> FALSE]
    ELSE IF access # "rw"
    THEN [res |-> "WriteSparseFile", file |-> content, wrote |-> FALSE]
    ELSE [res |-> "Ok", file |-> Display(rules), wrote |-> TRUE]

edit(content, access, prog) ==
    IF access = "none"
    THEN [res |-> "ReadSparseFile", file |-> content, wrote |-> FALSE]
    ELSE WriteBack(content, access, RunEditor(FromContent(content), prog))

\* ------------------------------------------------------------------------
\* InvertedGitignore: the gitignore matcher of the ignore crate, fed with
\* the inverted rules.
\* ------------------------------------------------------------------------
\* GitignoreBuilder::add_line as called by path_matches: the parsed glob, or
\* skip = TRUE for a line the builder drops (a comment or an empty line).
StripBang(line)  == IF StartsWith(line, Bang) THEN Drop(line, 1) ELSE line
StripSlash(line) == IF StartsWith(line, Slash) THEN Drop(line, 1) ELSE line
StripDir(line)   == IF EndsWith(line, Slash) THEN SubSeq(line, 1, Len(line) - 1) ELSE line

\* No literal slash: the glob may match at any depth (a "**/" prefix).
AnyDepth(abs, actual, segs) ==
    IF ~abs /\ ~Contains(actual, Slash) /\ segs[1] # <<Star, Star>>
    THEN << <<Star, Star>> >> \o segs ELSE segs

\* A trailing "/**" matches only inside the directory ("/*" is added).
InsideOnly(segs) ==
    IF Len(segs) > 1 /\ segs[Len(segs)] = <<Star, Star>>
    THEN Append(segs, <<Star>>) ELSE segs

GlobOf(whitelist, abs, only_dir, actual) ==
    [skip |-> FALSE, whitelist |-> whitelist, only_dir |-> only_dir,
     segs |-> InsideOnly(AnyDepth(abs, actual, SplitAt(actual, Slash, <<>>)))]

ParseGlob(line) ==
    IF line = <<>> \/ StartsWith(line, 35)       \* '#': a comment
    THEN [skip |-> TRUE, whitelist |-> FALSE, only_dir |-> FALSE, segs |-> <<>>]
    ELSE GlobOf(StartsWith(line, Bang),
                StartsWith(StripBang(line), Slash),
                EndsWith(StripSlash(StripBang(line)), Slash),
                StripDir(StripSlash(StripBang(line))))

\* One path component against one glob segment; '*' matches any run of
\* bytes of the component (literal_separator: never a '/').
RECURSIVE SegMatch(_, _)
SegMatch(pat, s) ==
    IF pat = <<>> THEN s = <<>>
    ELSE IF pat[1] = Star
    THEN SegMatch(Tail(pat), s) \/ (s # <<>> /\ SegMatch(pat, Tail(s)))
    ELSE s # <<>> /\ s[1] = pat[1] /\ SegMatch(Tail(pat), Tail(s))

\* The components of a path against the segments of a glob; a "**" segment
\* stands for zero or more components.
RECURSIVE GlobMatch(_, _)
GlobMatch(segs, comps) ==
    IF segs = <<>> THEN comps = <<>>
    ELSE IF segs[1] = <<Star, Star>>
    THEN GlobMatch(Tail(segs), comps)
         \/ (comps # <<>> /\ GlobMatch(segs, Tail(comps)))
    ELSE comps # <<>> /\ SegMatch(segs[1], comps[1])
         /\ GlobMatch(Tail(segs), Tail(comps))

\* Gitignore::matched_stripped: the last glob that matches decides.
GlobHits(g, comps, is_dir) ==
    ~g.skip /\ GlobMatch(g.segs, comps) /\ (~g.only_dir \/ is_dir)

RECURSIVE matched_stripped(_, _, _)
matched_stripped(globs, comps, is_dir) ==
    IF globs = <<>> THEN "None"
    ELSE IF GlobHits(globs[Len(globs)], comps, is_dir)
    THEN IF globs[Len(globs)].whitelist THEN "Whitelist" ELSE "Ignore"
    ELSE matched_stripped(SubSeq(globs, 1, Len(globs) - 1), comps, is_dir)

\* Gitignore::matched_path_or_any_parents: the path itself, then each parent
\* directory, the first that any glob matches decides.
RECURSIVE matched_path_or_any_parents(_, _, _)
matched_path_or_any_parents(globs, comps, is_dir) ==
    IF matched_stripped(globs, comps, is_dir) # "None"
    THEN matched_stripped(globs, comps, is_dir)
    ELSE IF comps = <<>> THEN "None"
    ELSE matched_path_or_any_parents(globs, SubSeq(comps, 1, Len(comps) - 1), TRUE)

\* The lines path_matches adds to the builder for one sparsity rule.
RECURSIVE TrimBangs(_)
TrimBangs(rule) ==
    IF StartsWith(rule, Bang) THEN TrimBangs(Tail(rule)) ELSE rule

InvertPattern(is_negated, pattern, is_dir) ==
    IF is_negated
    THEN <<pattern>> \o (IF is_dir THEN <<pattern \o <<Star, Star>> >> ELSE <<>>)
    ELSE << <<Bang>> \o pattern >>
         \o (IF is_dir THEN << <<Bang>> \o pattern \o <<Star, Star>> >> ELSE <<>>)

InvertRule(rule) ==
    InvertPattern(StartsWith(rule, Bang), TrimBangs(rule), EndsWith(TrimBangs(rule), Slash))

RECURSIVE InvertedLines(_)
InvertedLines(rules) ==
    IF rules = <<>> THEN <<>>
    ELSE InvertRule(rules[1]) \o InvertedLines(Tail(rules))

\* InvertedGitignore::path_matches for a file path given relative to the work
\* tree alias; rules in the order the caller lists them.
BuildGlobs(lines) == [i \in 1..Len(lines) |-> ParseGlob(lines[i])]

\* path_matches whose builder is not given the leading "/*" line.
LinesUnanchored(rules) == InvertedLines(rules)

\* path_matches adding every pattern as the rule has it, not inverted.
RECURSIVE LinesAsWritten(_)
LinesAsWritten(rules) ==
    IF rules = <<>> THEN << <<Slash, Star>> >>
    ELSE LinesAsWritten(SubSeq(rules, 1, Len(rules) - 1))
         \o InvertPattern(~StartsWith(rules[Len(rules)], Bang),
                          TrimBangs(rules[Len(rules)]),
                          EndsWith(rules[Len(rules)], Slash))

\* InvertedGitignore::path_matches for a path given relative to the work tree
\* alias that is a directory on disk (is_dir) or is not.
LinesOf(rules) == << <<Slash, Star>> >> \o InvertedLines(rules)

matcher_path_matches(path, is_dir, rules) ==
    matched_path_or_any_parents(BuildGlobs(LinesOf(rules)),
                                SplitAt(path, Slash, <<>>), is_dir) # "Ignore"

\* path_matches answering is_ignore() without the negation.
path_matches_uninverted(path, rules) ==
    matched_path_or_any_parents(BuildGlobs(<< <<Slash, Star>> >> \o InvertedLines(rules)),
                                SplitAt(path, Slash, <<>>), FALSE) = "Ignore"

path_matches(path, rules) ==
    matched_path_or_any_parents(BuildGlobs(<< <<Slash, Star>> >> \o InvertedLines(rules)),
                                SplitAt(path, Slash, <<>>), FALSE) # "Ignore"

\* ------------------------------------------------------------------------
\* State.
\* ------------------------------------------------------------------------
VARIABLES
    sparseFile,    \* bytes of <gitdir>/info/sparse-checkout
    perm,          \* access to the sparse file: "rw", "r" or "none"
    head,          \* the repository has a HEAD commit
    tree,          \* blob paths of the HEAD commit's tree
    index,         \* paths staged in the index
    workTree,      \* files that exist under the work tree alias
    materialised,  \* files of workTree that a git checkout wrote
    include,       \* definition.settings.include of the cluster
    clusters,      \* Store: the map, cluster name to the definition it holds
    disk,          \* the store root: what lies under and beside each <name>.git
    cloning,       \* Store::clone_cluster in progress: its locals
    config,        \* the repository's git configuration (Git2Deployer::new)
    lastCall       \* the call that just returned: what it did, in order

vars == <<sparseFile, perm, head, tree, index, workTree, materialised,
          include, clusters, disk, cloning, config, lastCall>>

\* The cluster store: names of clusters and the definitions they are given.
MaxNames    == 2
AllNames    == <<"shell", "vim", "tmux">>
StoreNames  == { AllNames[i] : i \in 1..Min(MaxNames, Len(AllNames)) }
Definitions == {"D1", "D2"}
Absent      == "absent"      \* HashMap::get giving None

\* No <name>.git directory; otherwise the definition committed as
\* cluster.toml, the sparse file, and the files under the work tree alias.
NoDir      == [exists |-> FALSE, def |-> Absent, file |-> <<>>, work |-> {}, mat |-> {}]
NoClusters == [n \in StoreNames |-> Absent]
EmptyRoot  == [n \in StoreNames |-> NoDir]
Keys(map)  == { n \in DOMAIN map : map[n] # Absent }
Dirs(d)    == { n \in DOMAIN d : d[n].exists }

\* No clone_cluster call is running.
NotCloning == [pc |-> "idle", name |-> "", unresolved |-> <<>>, pending |-> {},
               results |-> <<>>, before |-> {}]

\* The three keys Git2Deployer::new looks at, each unset.
Unset    == "unset"
NoConfig == [showUntrackedFiles |-> Unset, sparseCheckout |-> Unset,
             updateSparsePath |-> Unset]

NoInclude   == [some |-> FALSE, rules |-> {}]
SomeInclude(R) == [some |-> TRUE, rules |-> R]

\* The definitions a cluster is built with: include absent, ["a"] or
\* ["a", "d/"].
IncludeChoices ==
    { NoInclude, SomeInclude({<<97>>}), SomeInclude({<<97>>, <<100, Slash>>}) }

Call(op, kind, arg, res, pre, trace, origin) ==
    [op |-> op, kind |-> kind, arg |-> arg, res |-> res, pre |-> pre,
     trace |-> trace, origin |-> origin]

NoCall == Call("none", "", {}, "Ok", <<>>, <<>>, <<-1>>)

Rules(content) == SeqToSet(current_rules(content))

\* ------------------------------------------------------------------------
\* git, run out of process.
\* ------------------------------------------------------------------------
\* What git's own sparse-checkout matcher includes: the last pattern that
\* matches the file decides, a '!' pattern excluding; a file no pattern
\* matches follows its parent directory; nothing is included by default.
GitSparseIncludes(path, rules) ==
    matched_path_or_any_parents(BuildGlobs(rules), SplitAt(path, Slash, <<>>), FALSE)
        = "Ignore"

\* gitcall_non_interactive(["checkout"]): git re-applies the sparse-checkout
\* file to the work tree alias, writing every staged path the rules include
\* and deleting every staged path they exclude.  gitOk = FALSE is git
\* exiting non-zero, the work tree as it was.
CheckedOut(st, idx, want) ==
    [file |-> st.file,
     work |-> (st.work \ idx) \cup want,
     mat  |-> (st.mat \cap want) \cup (want \ st.work),
     res  |-> "Ok", trace |-> <<"checkout">>]

git_checkout(st, idx, gitOk) ==
    IF ~gitOk
    THEN [file |-> st.file, work |-> st.work, mat |-> st.mat,
          res |-> "Syscall", trace |-> <<"checkout">>]
    ELSE CheckedOut(st, idx, { p \in idx : GitSparseIncludes(p, Lines(st.file)) })

\* ------------------------------------------------------------------------
\* Git2Deployer.
\* ------------------------------------------------------------------------
Outcome(st, res, trace) ==
    [file |-> st.file, work |-> st.work, mat |-> st.mat, res |-> res, trace |-> trace]

\* The repository counted as empty only while nothing is staged.
is_empty_index == index = {}

is_empty == ~head

\* self.sparsity.edit(editor)?; self.gitcall_non_interactive(alias, ["checkout"])?
After(first, out) == [out EXCEPT !.trace = first \o out.trace]

\* The checkout whose failure restores the sparse file it found.
CheckoutRestoringFile(st, idx, e, gitOk) ==
    IF e.res # "Ok" THEN Outcome(st, "Sparse", <<>>)
    ELSE IF ~gitOk
    THEN Outcome(st, "Syscall", (IF e.wrote THEN <<"write">> ELSE <<>>) \o <<"checkout">>)
    ELSE After(IF e.wrote THEN <<"write">> ELSE <<>>,
               git_checkout([st EXCEPT !.file = e.file], idx, gitOk))

CheckoutAfterEdit(st, idx, e, gitOk) ==
    IF e.res # "Ok" THEN Outcome(st, "Sparse", <<>>)
    ELSE After(IF e.wrote THEN <<"write">> ELSE <<>>,
               git_checkout([st EXCEPT !.file = e.file], idx, gitOk))

EditThenCheckoutOn(st, idx, prog, gitOk) ==
    CheckoutAfterEdit(st, idx, edit(st.file, perm, prog), gitOk)

EditThenCheckout(st, prog, gitOk) == EditThenCheckoutOn(st, index, prog, gitOk)

deploy_with_rules(st, R, gitOk) ==
    IF is_empty THEN Outcome(st, "Ok", <<>>)
    ELSE EditThenCheckout(st, <<Ins(R)>>, gitOk)

undeploy_with_rules(st, R, gitOk) ==
    IF is_empty THEN Outcome(st, "Ok", <<>>)
    ELSE EditThenCheckout(st, <<Rem(R)>>, gitOk)

\* deploy_all without editor.clear_rules().
deploy_all_unclear(st, gitOk) ==
    IF is_empty THEN Outcome(st, "Ok", <<>>)
    ELSE EditThenCheckout(st, <<Ins({RuleAll})>>, gitOk)

\* deploy_all whose checkout writes no file.
deploy_all_uncheckedout(st, gitOk) ==
    IF is_empty THEN Outcome(st, "Ok", <<>>)
    ELSE EditThenCheckoutOn(st, {}, <<Clr, Ins({RuleAll})>>, gitOk)

deploy_all(st, gitOk) ==
    IF is_empty THEN Outcome(st, "Ok", <<>>)
    ELSE EditThenCheckout(st, <<Clr, Ins({RuleAll})>>, gitOk)

\* list_file_paths: the blob paths of the HEAD tree.
list_file_paths == tree

\* The search without "full_path.exists()".
FirstMatchingEntry(st, rules) ==
    IF rules = <<>> THEN FALSE
    ELSE \E entry \in list_file_paths : path_matches(entry, rules)

FirstDeployedEntry(st, rules) ==
    IF rules = <<>> THEN FALSE
    ELSE \E entry \in list_file_paths :
            entry \in st.work /\ path_matches(entry, rules)

is_deployed(st) ==
    IF is_empty THEN FALSE
    ELSE IF perm = "none" THEN FALSE
    ELSE FirstDeployedEntry(st, current_rules(st.file))

\* undeploy_all without the is_deployed test.
undeploy_all_unguarded(st, gitOk) == EditThenCheckout(st, <<Clr>>, gitOk)

undeploy_all(st, gitOk) ==
    IF ~is_deployed(st) THEN Outcome(st, "Ok", <<>>)
    ELSE EditThenCheckout(st, <<Clr>>, gitOk)

\* ------------------------------------------------------------------------
\* Cluster.
\* ------------------------------------------------------------------------
DeployDefaultAfter(u, gitOk2) ==
    IF u.res # "Ok" THEN u
    ELSE After(u.trace, deploy_with_rules(u, include.rules, gitOk2))

deploy_default_rules(st, gitOk1, gitOk2) ==
    IF ~include.some THEN Outcome(st, "Ok", <<>>)
    ELSE DeployDefaultAfter(undeploy_all(st, gitOk1), gitOk2)

\* undeploy_default_rules undeploying everything.
undeploy_default_all(st, gitOk) ==
    IF ~include.some THEN Outcome(st, "Ok", <<>>)
    ELSE undeploy_all(st, gitOk)

undeploy_default_rules(st, gitOk) ==
    IF ~include.some THEN Outcome(st, "Ok", <<>>)
    ELSE undeploy_with_rules(st, include.rules, gitOk)

\* Git2Deployer::sync_sparse_with_new_files, the index being idx.
AddNewRules(st, idx, new_rules, gitOk) ==
    IF new_rules # {}
    THEN EditThenCheckoutOn(st, idx, <<Ins(new_rules)>>, gitOk)
    ELSE Outcome(st, "Ok", <<>>)

\* The sync adding a rule for every new file, matching or not.
sync_sparse_unmatched(st, idx, new_files, gitOk) ==
    IF perm = "none"
    THEN Outcome(st, "panic", <<>>)
    ELSE AddNewRules(st, idx, new_files, gitOk)

sync_sparse_with_new_files(st, idx, new_files, gitOk) ==
    IF perm = "none"
    THEN Outcome(st, "panic", <<>>)        \* current_rules().unwrap()
    ELSE AddNewRules(st, idx,
                     { p \in new_files : ~path_matches(p, current_rules(st.file)) },
                     gitOk)

\* Git2Deployer::gitcall_interactive(["add", path]).  git stages the file when
\* it exists under the alias and exits non-zero otherwise (or when userOk is
\* FALSE: the user's git command fails for another reason).
GitAddStages(st, path, userOk) == userOk /\ path \in st.work

SyncNewlyAdded(st, index_before, index_after, gitOk) ==
    IF index_after \ index_before # {}
    THEN sync_sparse_with_new_files(st, index_after, index_after \ index_before, gitOk)
    ELSE Outcome(st, "Ok", <<>>)

gitcall_interactive_add(st, path, userOk, gitOk) ==
    IF ~GitAddStages(st, path, userOk)
    THEN [out |-> Outcome(st, "Syscall", <<>>), index |-> index]
    ELSE [out |-> SyncNewlyAdded(st, index, index \cup {path}, gitOk),
          index |-> index \cup {path}]

\* ------------------------------------------------------------------------
\* Actions.
\* ------------------------------------------------------------------------
Cur == [file |-> sparseFile, work |-> workTree, mat |-> materialised]

Returned(out, op, arg) ==
    /\ sparseFile' = out.file
    /\ workTree' = out.work
    /\ materialised' = out.mat
    /\ lastCall' = Call(op, "", arg, out.res, <<>>, out.trace, <<-1>>)

Init ==
    /\ sparseFile = <<>>
    /\ perm = "rw"
    /\ head = FALSE
    /\ tree = {}
    /\ index = {}
    /\ workTree = {}
    /\ materialised = {}
    /\ include \in IncludeChoices
    /\ clusters = NoClusters
    /\ disk = EmptyRoot
    /\ cloning = NotCloning
    /\ config = NoConfig
    /\ lastCall = NoCall

\* SparsityDrafter::edit called with an editor closure.
KindOf(prog) == IF Len(prog) = 1 THEN prog[1].kind ELSE "compound"
ArgOf(prog)  == IF Len(prog) = 1 THEN prog[1].rules ELSE {}

\* This edit is remove_rules(R) right after a successful edit insert_rules(R).
UndoesLastInsert(prog, res) ==
    /\ KindOf(prog) = "remove" /\ res = "Ok"
    /\ lastCall.op = "edit" /\ lastCall.kind = "insert"
    /\ lastCall.res = "Ok" /\ lastCall.arg = ArgOf(prog)

Edited(prog, e) ==
    /\ sparseFile' = e.file
    /\ lastCall' = Call("edit", KindOf(prog), ArgOf(prog), e.res, sparseFile,
                        IF e.wrote THEN <<"write">> ELSE <<>>,
                        IF UndoesLastInsert(prog, e.res) THEN lastCall.pre ELSE <<-1>>)

Edit(prog) ==
    /\ Edited(prog, edit(sparseFile, perm, prog))
    /\ UNCHANGED <<perm, head, tree, index, workTree, materialised, include, clusters, disk, cloning, config>>

\* The environment changes the access to the sparse file.
Chmod(p) ==
    /\ p # perm
    /\ perm' = p
    /\ lastCall' = Call("chmod", p, {}, "Ok", <<>>, <<>>, <<-1>>)
    /\ UNCHANGED <<sparseFile, head, tree, index, workTree, materialised, include, clusters, disk, cloning, config>>

\* The user creates a file under the work tree alias.
UserWriteFile(path) ==
    /\ path \notin workTree
    /\ workTree' = workTree \cup {path}
    /\ lastCall' = Call("user_write", "", {path}, "Ok", <<>>, <<>>, <<-1>>)
    /\ UNCHANGED <<sparseFile, perm, head, tree, index, materialised, include, clusters, disk, cloning, config>>

\* Git2Deployer::stage_and_commit: the entry joins the index and the tree of
\* the index becomes the HEAD commit.
StageAndCommit(filename) ==
    /\ index' = index \cup {filename}
    /\ tree' = index \cup {filename}
    /\ head' = TRUE
    /\ lastCall' = Call("stage_and_commit", "", {filename}, "Ok", <<>>, <<>>, <<-1>>)
    /\ UNCHANGED <<sparseFile, perm, workTree, materialised, include, clusters, disk, cloning, config>>

DeployWithRules(R, gitOk) ==
    /\ Returned(deploy_with_rules(Cur, R, gitOk), "deploy_with_rules", R)
    /\ UNCHANGED <<perm, head, tree, index, include, clusters, disk, cloning, config>>

UndeployWithRules(R, gitOk) ==
    /\ Returned(undeploy_with_rules(Cur, R, gitOk), "undeploy_with_rules", R)
    /\ UNCHANGED <<perm, head, tree, index, include, clusters, disk, cloning, config>>

DeployAll(gitOk) ==
    /\ Returned(deploy_all(Cur, gitOk), "deploy_all", {})
    /\ UNCHANGED <<perm, head, tree, index, include, clusters, disk, cloning, config>>

UndeployAll(gitOk) ==
    /\ Returned(undeploy_all(Cur, gitOk), "undeploy_all", {})
    /\ UNCHANGED <<perm, head, tree, index, include, clusters, disk, cloning, config>>

DeployDefaultRules(gitOk1, gitOk2) ==
    /\ Returned(deploy_default_rules(Cur, gitOk1, gitOk2), "deploy_default_rules", {})
    /\ UNCHANGED <<perm, head, tree, index, include, clusters, disk, cloning, config>>

UndeployDefaultRules(gitOk) ==
    /\ Returned(undeploy_default_rules(Cur, gitOk), "undeploy_default_rules", {})
    /\ UNCHANGED <<perm, head, tree, index, include, clusters, disk, cloning, config>>

IsDeployed ==
    /\ lastCall' = Call("is_deployed", "", {},
                        IF is_deployed(Cur) THEN "true" ELSE "false",
                        <<>>, <<>>, <<-1>>)
    /\ UNCHANGED <<sparseFile, perm, head, tree, index, workTree, materialised, include, clusters, disk, cloning, config>>

\* The record keeps whether the git call staged a path that was not staged.
GitcallReturned(r, path) ==
    /\ sparseFile' = r.out.file
    /\ workTree' = r.out.work
    /\ materialised' = r.out.mat
    /\ lastCall' = Call("gitcall_interactive",
                        IF r.index # index THEN "newly staged" ELSE "",
                        {path}, r.out.res, <<>>, r.out.trace, <<-1>>)
    /\ index' = r.index

GitcallInteractiveAdd(path, userOk, gitOk) ==
    /\ GitcallReturned(gitcall_interactive_add(Cur, path, userOk, gitOk), path)
    /\ UNCHANGED <<perm, head, tree, include, clusters, disk, cloning, config>>

Perms == {"rw", "r", "none"}

\* The rule lists callers pass to the deployer: none, one rule, or all.
RuleLists == {{}} \cup { {r} : r \in RuleUniverse } \cup {RuleUniverse}

Next ==
    \/ \E path \in PathUniverse : UserWriteFile(path)
    \/ \E path \in PathUniverse : StageAndCommit(path)
    \/ \E R \in RuleLists, gitOk \in BOOLEAN : DeployWithRules(R, gitOk)
    \/ \E R \in RuleLists, gitOk \in BOOLEAN : UndeployWithRules(R, gitOk)
    \/ \E gitOk \in BOOLEAN : DeployAll(gitOk)
    \/ \E gitOk \in BOOLEAN : UndeployAll(gitOk)
    \/ \E gitOk1 \in BOOLEAN, gitOk2 \in BOOLEAN : DeployDefaultRules(gitOk1, gitOk2)
    \/ \E gitOk \in BOOLEAN : UndeployDefaultRules(gitOk)
    \/ IsDeployed
    \/ \E path \in PathUniverse, userOk \in BOOLEAN, gitOk \in BOOLEAN :
           GitcallInteractiveAdd(path, userOk, gitOk)

Spec == Init /\ [][Next]_vars

\* The sparsity drafter on its own: editor closures run against the file.
InitSparse ==
    /\ Init
    /\ include = NoInclude

NextSparse ==
    \/ \E prog \in Editors : Edit(prog)
    \/ \E p \in Perms : Chmod(p)

SpecSparse == InitSparse /\ [][NextSparse]_vars

\* ------------------------------------------------------------------------
\* The deployment methods called twice in a row.
\* ------------------------------------------------------------------------
DeployMethods ==
    {"deploy_with_rules", "undeploy_with_rules", "deploy_all", "undeploy_all"}

Invoke(method, st, R, gitOk) ==
    CASE method = "deploy_with_rules"   -> deploy_with_rules(st, R, gitOk)
      [] method = "undeploy_with_rules" -> undeploy_with_rules(st, R, gitOk)
      [] method = "deploy_all"          -> deploy_all(st, gitOk)
      [] OTHER                          -> undeploy_all(st, gitOk)

\* The method that has just returned Ok, called again with the same rules;
\* the record keeps the sparse file the second call found.
Reinvoke(gitOk) ==
    /\ lastCall.op \in DeployMethods
    /\ lastCall.res = "Ok"
    /\ lastCall.kind = ""
    /\ sparseFile' = Invoke(lastCall.op, Cur, lastCall.arg, gitOk).file
    /\ workTree' = Invoke(lastCall.op, Cur, lastCall.arg, gitOk).work
    /\ materialised' = Invoke(lastCall.op, Cur, lastCall.arg, gitOk).mat
    /\ lastCall' = Call(lastCall.op, "again", lastCall.arg,
                        Invoke(lastCall.op, Cur, lastCall.arg, gitOk).res,
                        sparseFile,
                        Invoke(lastCall.op, Cur, lastCall.arg, gitOk).trace,
                        <<-1>>)
    /\ UNCHANGED <<perm, head, tree, index, include, clusters, disk, cloning, config>>

NextReinvoke ==
    \/ \E path \in PathUniverse : UserWriteFile(path)
    \/ \E path \in PathUniverse : StageAndCommit(path)
    \/ \E R \in RuleLists, gitOk \in BOOLEAN : DeployWithRules(R, gitOk)
    \/ \E R \in RuleLists, gitOk \in BOOLEAN : UndeployWithRules(R, gitOk)
    \/ \E gitOk \in BOOLEAN : DeployAll(gitOk)
    \/ \E gitOk \in BOOLEAN : UndeployAll(gitOk)
    \/ \E gitOk \in BOOLEAN : Reinvoke(gitOk)

SpecReinvoke == Init /\ [][NextReinvoke]_vars

\* A cluster as Git2Cluster::try_init leaves it: the definition committed as
\* "cluster.toml", then a checkout under the empty sparse file; what the user
\* then does with files of the work tree alias and the default rules.
ClusterToml == <<99, 108, 117, 115, 116, 101, 114, 46, 116, 111, 109, 108>>

\* PathBuf::join undone: the directory part of a path.
DirPart(p) ==
    IF ~Contains(p, Slash) THEN <<>>
    ELSE SubSeq(p, 1, (CHOOSE i \in 1..Len(p) :
                          p[i] = Slash /\ \A j \in (i + 1)..Len(p) : p[j] # Slash) - 1)

\* Git2Deployer::find_blob.  Inside the loop "path" is the directory being
\* traversed, so a blob's full path is compared with its own directory.
find_blob(path) ==
    IF is_empty THEN "Git2"
    ELSE IF \E full_path \in list_file_paths : full_path = DirPart(full_path)
    THEN "Ok"
    ELSE "BlobNotFound"

cat_file(path) == find_blob(path)

\* cat_file called on the cluster's deployer.
CatFile(path) ==
    /\ lastCall' = Call("cat_file", "", {path}, cat_file(path), <<>>, <<>>, <<-1>>)
    /\ UNCHANGED <<sparseFile, perm, head, tree, index, workTree, materialised,
                   include, clusters, disk, cloning, config>>

InitFresh ==
    /\ sparseFile = <<>>
    /\ perm = "rw"
    /\ head = TRUE
    /\ tree = {ClusterToml}
    /\ index = {ClusterToml}
    /\ workTree = {}
    /\ materialised = {}
    /\ include \in IncludeChoices
    /\ clusters = NoClusters
    /\ disk = EmptyRoot
    /\ cloning = NotCloning
    /\ config = NoConfig
    /\ lastCall = Call("try_init", "", {}, "Ok", <<>>, <<"checkout">>, <<-1>>)

NextFresh ==
    \/ \E path \in PathUniverse : UserWriteFile(path)
    \/ \E path \in PathUniverse, userOk \in BOOLEAN, gitOk \in BOOLEAN :
           GitcallInteractiveAdd(path, userOk, gitOk)
    \/ \E gitOk1 \in BOOLEAN, gitOk2 \in BOOLEAN : DeployDefaultRules(gitOk1, gitOk2)
    \/ \E gitOk \in BOOLEAN : UndeployAll(gitOk)
    \/ IsDeployed
    \/ \E path \in PathUniverse \cup {ClusterToml} : CatFile(path)

SpecFresh == InitFresh /\ [][NextFresh]_vars

\* ------------------------------------------------------------------------
\* The matcher and the argument expansion, applied to inputs of bounded sets.
\* ------------------------------------------------------------------------
MaxMatchRules == 2   \* rules in one list handed to path_matches
MaxArgs       == 2   \* user arguments handed to expand_bin_args

RuleEtc       == <<Slash, 101, 116, 99, Slash>>                                \* "/etc/"
RuleNotSecret == <<Bang, Slash, 101, 116, 99, Slash, 115, 101, 99, 114, 101, 116>>  \* "!/etc/secret"
RuleOther     == <<111, 116, 104, 101, 114>>                                   \* "other"
MatchRuleSet  == {RuleAll, RuleEtc, RuleNotSecret, RuleOther}

PathEtcFoo    == <<101, 116, 99, Slash, 102, 111, 111>>                        \* "etc/foo"
PathEtcSecret == <<101, 116, 99, Slash, 115, 101, 99, 114, 101, 116>>          \* "etc/secret"
PathOther     == <<111, 116, 104, 101, 114>>                                   \* "other"
PathDeep      == <<101, 116, 99, Slash, 115, 117, 98, Slash, 100, 101, 101, 112>>  \* "etc/sub/deep"
PathEtc       == <<101, 116, 99>>                                              \* "etc"
PathSubOther  == <<115, 117, 98, Slash, 111, 116, 104, 101, 114>>              \* "sub/other"
MatchPaths    == {PathEtcFoo, PathEtcSecret, PathOther, PathDeep, PathEtc, PathSubOther}

\* Rule lists without repetition, in every order.
MatchRuleLists ==
    { l \in UNION { [1..n -> MatchRuleSet] : n \in 0..MaxMatchRules } :
        \A i \in 1..Len(l), j \in 1..Len(l) : i # j => l[i] # l[j] }

MatchRuleSets == { R \in SUBSET MatchRuleSet : Cardinality(R) <= MaxMatchRules }

Truth(b) == IF b THEN "true" ELSE "false"
FileKind(is_dir) == IF is_dir THEN "dir" ELSE "file"

\* InvertedGitignore::path_matches on a rule list; the record keeps the list
\* as the lines of a file.
PathMatches(path, is_dir, rules) ==
    /\ lastCall' = Call("path_matches", FileKind(is_dir), {path},
                        Truth(matcher_path_matches(path, is_dir, rules)),
                        JoinLines(rules), <<>>, <<-1>>)
    /\ UNCHANGED <<sparseFile, perm, head, tree, index, workTree, materialised, include, clusters, disk, cloning, config>>

\* SparsityDrafter::path_matches: the rules are the lines of the sparse file.
DrafterPathMatches(path, is_dir) ==
    /\ lastCall' = Call("drafter_path_matches", FileKind(is_dir), {path},
                        Truth(matcher_path_matches(path, is_dir, current_rules(sparseFile))),
                        sparseFile, <<>>, <<-1>>)
    /\ UNCHANGED <<sparseFile, perm, head, tree, index, workTree, materialised, include, clusters, disk, cloning, config>>

\* Vec::splice(at..at, items)
Splice(v, at, items) == SubSeq(v, 1, at) \o items \o SubSeq(v, at + 1, Len(v))

\* should_add_sparse_flag that does not know "mv".
should_add_sparse_flag_add_rm(args) ==
    IF args = <<>> THEN FALSE
    ELSE args[1] \in {"add", "rm"}

should_add_sparse_flag(args) ==
    IF args = <<>> THEN FALSE
    ELSE args[1] \in {"add", "rm", "mv"}

SparseFlagged(user_args) ==
    IF should_add_sparse_flag(user_args)
    THEN Splice(user_args, 1, <<"--sparse">>)
    ELSE user_args

expand_bin_args(gitdir, work_tree_alias, args) ==
    <<"--git-dir", gitdir, "--work-tree", work_tree_alias>> \o SparseFlagged(args)

GitDirs  == {"/s/a.git/", "/s/b.git/"}
Aliases  == {"/w"}
ArgWords == {"add", "rm", "mv", "status", "f"}
ArgLists == UNION { [1..n -> ArgWords] : n \in 0..MaxArgs }

\* The record keeps the git directory, the alias, the user arguments (origin)
\* and the expanded arguments (trace).
ExpandBinArgs(gitdir, work_tree_alias, args) ==
    /\ lastCall' = Call("expand_bin_args", gitdir, {work_tree_alias}, "Ok", <<>>,
                        expand_bin_args(gitdir, work_tree_alias, args), args)
    /\ UNCHANGED <<sparseFile, perm, head, tree, index, workTree, materialised, include, clusters, disk, cloning, config>>

InitApply ==
    /\ Init
    /\ include = NoInclude

NextApply ==
    \/ \E R \in MatchRuleSets : Edit(<<Ins(R)>>)
    \/ Edit(<<Clr>>)
    \/ \E path \in MatchPaths, is_dir \in BOOLEAN, rules \in MatchRuleLists :
           PathMatches(path, is_dir, rules)
    \/ \E path \in MatchPaths, is_dir \in BOOLEAN : DrafterPathMatches(path, is_dir)
    \/ \E gitdir \in GitDirs, alias \in Aliases, args \in ArgLists :
           ExpandBinArgs(gitdir, alias, args)

SpecApply == InitApply /\ [][NextApply]_vars

\* ------------------------------------------------------------------------
\* is_deployed with its internal failures: an unreadable sparse file, a
\* failing list_file_paths, a rule the gitignore builder rejects.
\* ------------------------------------------------------------------------
MaxProbeRules == 2

RuleBad    == <<91>>                                             \* "["
ProbeRules == { (<< <<97>>, RuleBad, <<100, Slash>> >>)[i] : i \in 1..Min(MaxProbeRules, 3) }

\* GitignoreBuilder::add_line(..) returning Err: a character class that is
\* never closed.
Unparsable(line) == Contains(line, 91) /\ ~Contains(line, 93)

\* InvertedGitignore::path_matches with its unwrap()s.
path_matches_call(path, rules) ==
    IF \E i \in 1..Len(InvertedLines(rules)) : Unparsable(InvertedLines(rules)[i])
    THEN "panic"
    ELSE Truth(path_matches(path, rules))

\* The for loop of is_deployed: path_matches is first called for the first
\* entry that exists under the work tree alias.
DeployedEntryCall(st, rules) ==
    IF list_file_paths \cap st.work = {} THEN "false"
    ELSE IF \E entry \in list_file_paths \cap st.work :
                path_matches_call(entry, rules) = "panic"
    THEN "panic"
    ELSE Truth(FirstDeployedEntry(st, rules))

is_deployed_call(st, listOk) ==
    IF is_empty THEN "false"
    ELSE IF perm = "none" THEN "false"
    ELSE IF current_rules(st.file) = <<>> THEN "false"
    ELSE IF ~listOk THEN "false"
    ELSE DeployedEntryCall(st, current_rules(st.file))

IsDeployedCall(listOk) ==
    /\ lastCall' = Call("is_deployed", IF listOk THEN "" ELSE "list failed", {},
                        is_deployed_call(Cur, listOk), <<>>, <<>>, <<-1>>)
    /\ UNCHANGED <<sparseFile, perm, head, tree, index, workTree, materialised,
                   include, clusters, disk, cloning, config>>

\* A cluster with commits, its sparse file as earlier deployments wrote it.
InitDeployed ==
    /\ sparseFile \in { Display([rules |-> S]) : S \in SUBSET ProbeRules }
    /\ perm \in Perms
    /\ head = TRUE
    /\ tree = PathUniverse
    /\ index = PathUniverse
    /\ workTree \in SUBSET PathUniverse
    /\ materialised = {}
    /\ include = NoInclude
    /\ clusters = NoClusters
    /\ disk = EmptyRoot
    /\ cloning = NotCloning
    /\ config = NoConfig
    /\ lastCall = NoCall

NextDeployed ==
    \/ \E listOk \in BOOLEAN : IsDeployedCall(listOk)
    \/ \E path \in PathUniverse : UserWriteFile(path)
    \/ \E p \in Perms : Chmod(p)

SpecDeployed == InitDeployed /\ [][NextDeployed]_vars

\* ------------------------------------------------------------------------
\* Store: the clusters under one store root.  Every cluster is as try_init
\* makes it (HEAD with the tree {cluster.toml}); disk[n] is the state of
\* cluster n, read and written by the deployer operators above.
\* ------------------------------------------------------------------------
\* Git2Cluster::try_open: Ok when cluster.toml could be read.
try_open == IF cat_file(ClusterToml) = "Ok" THEN "Ok" ELSE "Deploy"

Opened(d) == [n \in DOMAIN d |-> IF d[n].exists THEN d[n].def ELSE Absent]

\* Store::open: one cluster per <name>.git, the first failure returned.
open(d) ==
    IF \E n \in Dirs(d) : try_open # "Ok"
    THEN [res |-> "Cluster", map |-> NoClusters]
    ELSE [res |-> "Ok", map |-> Opened(d)]

Entries(map) == { <<n, map[n]>> : n \in Keys(map) }

Stored(d, name, def, out) ==
    [d EXCEPT ![name] = [exists |-> TRUE, def |-> def, file |-> out.file,
                         work |-> out.work, mat |-> out.mat]]

StoreResult(res) == IF res = "Ok" THEN "Ok" ELSE "Cluster"

\* Git2Cluster::try_init: the repository, the commit of cluster.toml, then a
\* checkout; Store::init_cluster inserts the cluster if all of it succeeded.
try_init(d, name, gitOk) == git_checkout(d[name], index, gitOk)

init_cluster(map, d, name, def, out) ==
    [res |-> StoreResult(out.res),
     map |-> IF out.res = "Ok" THEN [map EXCEPT ![name] = def] ELSE map,
     disk |-> Stored(d, name, def, out),
     trace |-> <<"stage_and_commit">> \o out.trace]

\* Store::remove_cluster
Removed(map, d, name, out) ==
    [res |-> StoreResult(out.res),
     map |-> [map EXCEPT ![name] = Absent],
     disk |-> Stored(d, name, d[name].def, out),
     trace |-> <<"map_remove", "undeploy_all">> \o out.trace]

remove_cluster(map, d, name, gitOk) ==
    IF map[name] = Absent
    THEN [res |-> "ClusterNotFound", map |-> map, disk |-> d, trace |-> <<>>]
    ELSE Removed(map, d, name, undeploy_all(d[name], gitOk))

\* Store::use_cluster with the closures |c| c.deploy_all() and
\* |c| Ok(c.is_deployed()).
Usages == {"deploy_all", "is_deployed"}

RunUsage(usage, st, gitOk) ==
    IF usage = "deploy_all" THEN deploy_all(st, gitOk)
    ELSE Outcome(st, Truth(is_deployed(st)), <<>>)

Used(map, d, name, usage, out) ==
    [res |-> out.res, map |-> map,
     disk |-> Stored(d, name, d[name].def, out),
     trace |-> <<usage>> \o out.trace]

\* use_cluster handing the closure whatever the lookup gave.
use_cluster_unchecked(map, d, name, usage, gitOk) ==
    Used(map, d, name, usage, RunUsage(usage, d[name], gitOk))

use_cluster(map, d, name, usage, gitOk) ==
    IF map[name] = Absent
    THEN [res |-> "ClusterNotFound", map |-> map, disk |-> d, trace |-> <<>>]
    ELSE Used(map, d, name, usage, RunUsage(usage, d[name], gitOk))

StoreReturned(r, op, name, arg) ==
    /\ clusters' = r.map
    /\ disk' = r.disk
    /\ lastCall' = Call(op, name, arg, r.res, <<>>, r.trace, <<-1>>)

\* The record of Store::open keeps the entries of the store it returned and,
\* when the call before was Store::open too, what that one returned.
OpenReturned(r) ==
    /\ clusters' = IF r.res = "Ok" THEN r.map ELSE clusters
    /\ lastCall' = Call("open", IF lastCall.op = "open" THEN "again" ELSE "first",
                        Entries(r.map), r.res, <<>>, <<>>,
                        IF lastCall.op = "open" THEN <<lastCall.res, lastCall.arg>>
                        ELSE <<-1>>)

Open ==
    /\ OpenReturned(open(disk))
    /\ UNCHANGED <<sparseFile, perm, head, tree, index, workTree, materialised,
                   include, disk, cloning, config>>

InitCluster(name, def, gitOk) ==
    /\ StoreReturned(init_cluster(clusters, disk, name, def, try_init(disk, name, gitOk)),
                     "init_cluster", name, {})
    /\ UNCHANGED <<sparseFile, perm, head, tree, index, workTree, materialised, include, cloning, config>>

RemoveCluster(name, gitOk) ==
    /\ StoreReturned(remove_cluster(clusters, disk, name, gitOk), "remove_cluster", name, {})
    /\ UNCHANGED <<sparseFile, perm, head, tree, index, workTree, materialised, include, cloning, config>>

UseCluster(name, usage, gitOk) ==
    /\ StoreReturned(use_cluster(clusters, disk, name, usage, gitOk),
                     "use_cluster", name, {usage})
    /\ UNCHANGED <<sparseFile, perm, head, tree, index, workTree, materialised, include, cloning, config>>

\* Store::open on a root that holds no cluster yet.
InitStore ==
    /\ sparseFile = <<>>
    /\ perm = "rw"
    /\ head = TRUE
    /\ tree = {ClusterToml}
    /\ index = {ClusterToml}
    /\ workTree = {}
    /\ materialised = {}
    /\ include = NoInclude
    /\ clusters = NoClusters
    /\ disk = EmptyRoot
    /\ cloning = NotCloning
    /\ config = NoConfig
    /\ lastCall = Call("open", "first", {}, "Ok", <<>>, <<>>, <<-1>>)

NextStore ==
    \/ Open
    \/ \E name \in StoreNames, def \in Definitions, gitOk \in BOOLEAN :
           InitCluster(name, def, gitOk)
    \/ \E name \in StoreNames, gitOk \in BOOLEAN : RemoveCluster(name, gitOk)
    \/ \E name \in StoreNames, usage \in Usages, gitOk \in BOOLEAN :
           UseCluster(name, usage, gitOk)

SpecStore == InitStore /\ [][NextStore]_vars

\* ------------------------------------------------------------------------
\* Store::clone_cluster and StoreState::find_unresolved_dependencies.
\* ------------------------------------------------------------------------
MaxDefs == 6
MaxWorkers == 3

CloneNames == {"a", "b", "c"}

\* ClusterDependency { name, url, .. }
Dep(name, url) == [name |-> name, url |-> url]
DepA  == Dep("a", "u1")
DepB  == Dep("b", "u1")
DepC  == Dep("c", "u1")
DepC2 == Dep("c", "u2")

\* Cluster definitions, named by what their [[dependency]] tables list.
AllDefs   == <<"none", "b", "c", "bc", "a", "cc2", "empty", "cb">>
CloneDefs == { AllDefs[i] : i \in 1..Min(MaxDefs, Len(AllDefs)) }

Some(deps) == [some |-> TRUE, deps |-> deps]
None       == [some |-> FALSE, deps |-> <<>>]

\* ClusterDefinition::dependencies: Option<Vec<ClusterDependency>>
dependencies(def) ==
    CASE def = "b"     -> Some(<<DepB>>)
      [] def = "c"     -> Some(<<DepC>>)
      [] def = "bc"    -> Some(<<DepB, DepC>>)
      [] def = "cb"    -> Some(<<DepC, DepB>>)
      [] def = "a"     -> Some(<<DepA>>)
      [] def = "cc2"   -> Some(<<DepC, DepC2>>)
      [] def = "empty" -> Some(<<>>)
      [] OTHER         -> None

DepNames(deps) == [i \in 1..Len(deps) |-> deps[i].name]

\* The entries the loop pushes for a visited dependency: those of the
\* cluster the map holds under its name, if it holds one.
Pushed(map, current) ==
    IF map[current.name] = Absent THEN <<>>
    ELSE dependencies(map[current.name]).deps

\* stack.push_back(dependencies[0].clone()) if the list is not empty
Seed(deps) == IF deps = <<>> THEN <<>> ELSE <<deps[1]>>

\* The while loop: pop_back, skip what visited holds, push to unresolved
\* what the map lacks, push the dependencies of what it holds.
RECURSIVE Resolve(_, _, _, _)
Resolve(map, stack, visited, unresolved) ==
    IF stack = <<>> THEN unresolved
    ELSE IF stack[Len(stack)] \in visited
    THEN Resolve(map, SubSeq(stack, 1, Len(stack) - 1), visited, unresolved)
    ELSE Resolve(map,
                 SubSeq(stack, 1, Len(stack) - 1) \o Pushed(map, stack[Len(stack)]),
                 visited \cup {stack[Len(stack)]},
                 IF map[stack[Len(stack)].name] = Absent
                 THEN Append(unresolved, stack[Len(stack)])
                 ELSE unresolved)

find_unresolved_dependencies(map, parent) ==
    IF ~dependencies(parent).some THEN <<>>
    ELSE Resolve(map, Seed(dependencies(parent).deps), {}, <<>>)

\* Git2Cluster::try_clone into <name>.git: git refuses a destination that
\* exists; otherwise the clone and the reading of cluster.toml succeed or
\* fail as the remote and the network decide (cloned).
try_clone(d, name, cloned) == cloned /\ ~d[name].exists

ClonedDir(d, name, def) ==
    [d EXCEPT ![name] = [exists |-> TRUE, def |-> def, file |-> <<>>,
                         work |-> {}, mat |-> {}]]

\* The locals of a call past its first locked block; before keeps the keys
\* the map had when the call began.
Cloning(name, unresolved, before) ==
    [pc |-> "workers", name |-> name, unresolved |-> unresolved,
     pending |-> 1..Len(unresolved), results |-> <<>>, before |-> before]

\* One entry of results: what awaiting the spawned task gave.  joined is
\* false for a JoinError (the task panicked or was cancelled); otherwise the
\* task returned Ok((name, cluster)) or its error.
TaskResult(name, joined, ok, def) ==
    [name |-> name, joined |-> joined, ok |-> joined /\ ok,
     def |-> IF joined /\ ok THEN def ELSE Absent]

Joined(result) == result.joined

\* for (name, cluster) in clusters { state.clusters.insert(name, cluster) }
RECURSIVE InsertAll(_, _)
InsertAll(map, results) ==
    IF results = <<>> THEN map
    ELSE InsertAll([map EXCEPT ![results[1].name] = results[1].def], Tail(results))

\* results.into_iter().flatten(): a Result iterates over its Ok value, so
\* the JoinErrors fall out.
Flattened(results) == SelectSeq(results, Joined)

\* collect::<Result<Vec<_>, _>>()
Collected(results) == \A i \in 1..Len(results) : results[i].ok

\* clone_cluster up to the end of its first locked block.
CloneBegin(name, def, cloned) ==
    /\ cloning.pc = "idle"
    /\ IF try_clone(disk, name, cloned)
       THEN /\ clusters' = [clusters EXCEPT ![name] = def]
            /\ disk' = ClonedDir(disk, name, def)
            /\ cloning' = Cloning(name, find_unresolved_dependencies(clusters, def),
                                Keys(clusters))
            /\ lastCall' = Call("clone_cluster", name, Keys(clusters), "pending",
                                find_unresolved_dependencies(clusters, def),
                                <<>>, <<def>>)
       ELSE /\ lastCall' = Call("clone_cluster", name, Keys(clusters), "Cluster",
                                <<>>, <<>>, <<-1>>)
            /\ UNCHANGED <<clusters, disk, cloning>>
    /\ UNCHANGED <<sparseFile, perm, head, tree, index, workTree, materialised,
                   include, config>>

\* One spawned task running to its end, or to its panic or cancellation:
\* try_clone of the dependency, what the await gave pushed to results.
WorkerDone(i, def, cloned, joined) ==
    /\ cloning.pc = "workers"
    /\ i \in cloning.pending
    /\ joined \/ (~cloned /\ def = "none")
    /\ disk' = IF joined /\ try_clone(disk, cloning.unresolved[i].name, cloned)
               THEN ClonedDir(disk, cloning.unresolved[i].name, def)
               ELSE disk
    /\ cloning' = [cloning EXCEPT
           !.pending = @ \ {i},
           !.results = Append(@, TaskResult(cloning.unresolved[i].name, joined,
                                  try_clone(disk, cloning.unresolved[i].name, cloned),
                                  def))]
    /\ lastCall' = Call("worker", cloning.unresolved[i].name, {},
                        IF ~joined THEN "JoinError"
                        ELSE IF try_clone(disk, cloning.unresolved[i].name, cloned)
                        THEN "Ok" ELSE "Cluster",
                        <<>>, <<>>, <<-1>>)
    /\ UNCHANGED <<sparseFile, perm, head, tree, index, workTree, materialised,
                   include, clusters, config>>

\* clone_cluster from the end of for_each_concurrent to its return: the
\* results collected, the second locked block, Ok(()).
CloneMerge ==
    /\ cloning.pc = "workers"
    /\ cloning.pending = {}
    /\ clusters' = IF Collected(Flattened(cloning.results))
                   THEN InsertAll(clusters, Flattened(cloning.results))
                   ELSE clusters
    /\ cloning' = NotCloning
    /\ lastCall' = Call("clone_cluster", cloning.name, cloning.before,
                        IF Collected(Flattened(cloning.results)) THEN "Ok" ELSE "Cluster",
                        DepNames(cloning.unresolved), <<>>,
                        DepNames(cloning.results))
    /\ UNCHANGED <<sparseFile, perm, head, tree, index, workTree, materialised,
                   include, disk, config>>

\* A store root holding any clusters of CloneNames, opened.
InitClone ==
    /\ sparseFile = <<>>
    /\ perm = "rw"
    /\ head = TRUE
    /\ tree = {ClusterToml}
    /\ index = {ClusterToml}
    /\ workTree = {}
    /\ materialised = {}
    /\ include = NoInclude
    /\ clusters \in [CloneNames -> CloneDefs \cup {Absent}]
    /\ disk = [n \in CloneNames |->
                  IF clusters[n] = Absent THEN NoDir
                  ELSE [NoDir EXCEPT !.exists = TRUE, !.def = clusters[n]]]
    /\ cloning = NotCloning
    /\ config = NoConfig
    /\ lastCall = NoCall

\* clone_cluster on one thread, remove_cluster on another.
NextClone ==
    \/ \E name \in CloneNames, def \in CloneDefs, cloned \in BOOLEAN :
           CloneBegin(name, def, cloned)
    \/ \E i \in 1..MaxWorkers, def \in CloneDefs, cloned \in BOOLEAN,
          joined \in BOOLEAN :
           WorkerDone(i, def, cloned, joined)
    \/ CloneMerge
    \/ \E name \in CloneNames : RemoveCluster(name, TRUE)

SpecClone == InitClone /\ [][NextClone]_vars

\* ------------------------------------------------------------------------
\* Git2Deployer::new and the repository configuration.
\* ------------------------------------------------------------------------
ConfigKeys   == {"showUntrackedFiles", "sparseCheckout", "updateSparsePath"}
ConfigValues == {Unset, "no", "true", "false"}

\* if get_config_value(key)? != Some(unless) { config.set_str(key, value)? }
Ensure(cfg, key, unless, value) ==
    IF cfg[key] # unless THEN [cfg EXCEPT ![key] = value] ELSE cfg

\* The third key: compared with "true", set to "false".
EnsureAdvice(cfg) == Ensure(cfg, "updateSparsePath", "true", "false")

\* Git2Deployer::new: the configuration it leaves.
new(cfg) ==
    EnsureAdvice(Ensure(Ensure(cfg, "showUntrackedFiles", "no", "no"),
                        "sparseCheckout", "true", "true"))

\* git config <key> <value> or git config --unset <key>, run by the user.
SetConfig(key, value) ==
    /\ config[key] # value
    /\ config' = [config EXCEPT ![key] = value]
    /\ lastCall' = Call("git_config", key, {value}, "Ok", <<>>, <<>>, <<-1>>)
    /\ UNCHANGED <<sparseFile, perm, head, tree, index, workTree, materialised,
                   include, clusters, disk, cloning>>

\* Git2Deployer::new on the repository; repository.config() may fail.  The
\* record keeps the configuration the call found.
NewDeployer(gitOk) ==
    /\ config' = IF gitOk THEN new(config) ELSE config
    /\ lastCall' = Call("new",
                        IF lastCall.op = "new" /\ lastCall.res = "Ok"
                        THEN "again" ELSE "first",
                        {}, IF gitOk THEN "Ok" ELSE "Git2", <<config>>, <<>>, <<-1>>)
    /\ UNCHANGED <<sparseFile, perm, head, tree, index, workTree, materialised,
                   include, clusters, disk, cloning>>

InitConfig ==
    /\ InitFresh
    /\ include = NoInclude

NextConfig ==
    \/ \E key \in ConfigKeys, value \in ConfigValues : SetConfig(key, value)
    \/ \E gitOk \in BOOLEAN : NewDeployer(gitOk)

SpecConfig == InitConfig /\ [][NextConfig]_vars

\* ------------------------------------------------------------------------
\* Properties of the sparsity drafter (under SpecSparse).
\* ------------------------------------------------------------------------
\* C1, as written: edit(insert_rules(R)) followed by edit(remove_rules(R))
\* leaves the rule set equal to the set S held before the first of the two
\* edits, whether or not R overlaps S.
C1_RoundTripRestores ==
    lastCall.origin # <<-1>> => Rules(sparseFile) = Rules(lastCall.origin)

\* C1, amended: edit(insert_rules(R)) followed by edit(remove_rules(R))
\* leaves the rule set equal to S \ R, which is S exactly when R and S share
\* no rule.
C1_RoundTripRemoves ==
    lastCall.origin # <<-1>> =>
        /\ Rules(sparseFile) = Rules(lastCall.origin) \ lastCall.arg
        /\ (lastCall.arg \cap Rules(lastCall.origin) = {}
                => Rules(sparseFile) = Rules(lastCall.origin))

\* The two edits have run with an R that holds a rule of S and a rule not in S.
C1_Witness ==
    /\ lastCall.origin # <<-1>>
    /\ lastCall.arg \cap Rules(lastCall.origin) # {}
    /\ lastCall.arg \ Rules(lastCall.origin) # {}
    /\ Rules(sparseFile) # {}

\* C2: an edit that returns with the rule set equal to the rule set it
\* loaded has not written the sparse file.
C2_NoWriteWhenSetUnchanged ==
    (/\ lastCall.op = "edit"
     /\ lastCall.res = "Ok"
     /\ Rules(sparseFile) = Rules(lastCall.pre)) => lastCall.trace = <<>>

\* C3: the sparse file is its distinct rules in ascending order, each
\* followed by a newline: no line twice, zero bytes when there is no rule, a
\* final newline exactly when there is a rule.
C3_FileIsSortedLines ==
    /\ \A i, j \in 1..Len(Lines(sparseFile)) :
          i < j => StrLess(Lines(sparseFile)[i], Lines(sparseFile)[j])
    /\ \A i \in 1..Len(Lines(sparseFile)) : Lines(sparseFile)[i] # <<>>
    /\ Rules(sparseFile) = {} => Len(sparseFile) = 0
    /\ (sparseFile # <<>> /\ sparseFile[Len(sparseFile)] = NL)
          <=> Rules(sparseFile) # {}

\* An edit has just written a file of all the rules, inserted out of order.
C3_Witness ==
    /\ lastCall.op = "edit"
    /\ lastCall.trace = <<"write">>
    /\ Len(Lines(lastCall.pre)) = MaxRules - 1
    /\ Len(Lines(sparseFile)) = MaxRules
    /\ Lines(sparseFile)[1] \in lastCall.arg

\* ------------------------------------------------------------------------
\* Properties of a freshly initialised cluster (under SpecFresh).
\* ------------------------------------------------------------------------
\* C11: on a freshly initialised cluster with include = [F], once F, written
\* under the work tree alias, is the one file staged with gitcall_interactive
\* and deploy_default_rules has returned Ok, is_deployed answers true and the
\* sparse file is exactly the line F and a newline.
C11_AddThenDeployDefault ==
    [][ \A F \in PathUniverse :
          (/\ include = SomeInclude({F})
           /\ F \in workTree
           /\ index = {ClusterToml, F}
           /\ lastCall.op = "deploy_default_rules"
           /\ lastCall.res = "Ok"
           /\ lastCall'.op = "is_deployed")
          => /\ lastCall'.res = "true"
             /\ sparseFile' = F \o <<NL>> ]_vars

\* ------------------------------------------------------------------------
\* Properties of the deployer and the cluster (under Spec).
\* ------------------------------------------------------------------------
\* C4: a deploy_all that returns Ok on a cluster with a HEAD commit leaves
\* the rule set {"/*"}, having written the file and then run the checkout;
\* without a HEAD commit it changes neither the file nor the work tree and
\* runs no checkout.
C4_DeployAll ==
    [][ (lastCall'.op = "deploy_all" /\ lastCall'.res = "Ok") =>
            IF head
            THEN /\ Rules(sparseFile') = {RuleAll}
                 /\ lastCall'.trace = <<"write", "checkout">>
            ELSE /\ UNCHANGED <<sparseFile, workTree, materialised, index>>
                 /\ lastCall'.trace = <<>> ]_vars

\* deploy_all has returned Ok on a cluster with a HEAD commit, and the
\* checkout wrote a file.
C4_Witness ==
    /\ lastCall.op = "deploy_all"
    /\ lastCall.res = "Ok"
    /\ head
    /\ Rules(sparseFile) = {RuleAll}
    /\ materialised # {}

\* C5: after undeploy_all returns Ok the rule set is empty and no tracked
\* file that a checkout wrote is left under the work tree alias.
C5_UndeployAllClears ==
    (lastCall.op = "undeploy_all" /\ lastCall.res = "Ok") =>
        /\ Rules(sparseFile) = {}
        /\ materialised \cap tree = {}

C7_DeployDefaultReplaces ==
    [][ (lastCall'.op = "deploy_default_rules" /\ lastCall'.res = "Ok") =>
            IF include.some
            THEN head => Rules(sparseFile') = include.rules
            ELSE UNCHANGED <<sparseFile, workTree>> ]_vars

\* C8, as written: undeploy_default_rules removes exactly the rules of
\* include from the rule set and leaves the others; with include absent the
\* rule set is unchanged.
C8_UndeployDefaultRemoves ==
    [][ (lastCall'.op = "undeploy_default_rules" /\ lastCall'.res = "Ok") =>
            Rules(sparseFile') =
                IF include.some THEN Rules(sparseFile) \ include.rules
                ELSE Rules(sparseFile) ]_vars

\* C8, amended: on a cluster with a HEAD commit undeploy_default_rules, when
\* it returns Ok, has removed exactly the rules of include and left the
\* others; with include absent, or without a HEAD commit, the rule set is
\* unchanged.
C8_UndeployDefaultRemovesWithHead ==
    [][ (lastCall'.op = "undeploy_default_rules" /\ lastCall'.res = "Ok") =>
            Rules(sparseFile') =
                IF include.some /\ head THEN Rules(sparseFile) \ include.rules
                ELSE Rules(sparseFile) ]_vars

\* undeploy_default_rules has removed the rules of include and left another.
C8_Witness ==
    /\ lastCall.op = "undeploy_default_rules"
    /\ lastCall.res = "Ok"
    /\ lastCall.trace = <<"write", "checkout">>
    /\ head
    /\ include.some
    /\ Rules(sparseFile) # {}
    /\ Rules(sparseFile) \cap include.rules = {}

\* C9: without a HEAD commit deploy_with_rules and undeploy_with_rules return
\* Ok, leave the sparse file and the work tree as they were and run no
\* checkout, for every rule list.
C9_EmptyClusterNoEffect ==
    [][ (lastCall'.op \in {"deploy_with_rules", "undeploy_with_rules"} /\ ~head) =>
            /\ lastCall'.res = "Ok"
            /\ lastCall'.trace = <<>>
            /\ UNCHANGED <<sparseFile, workTree, materialised, index>> ]_vars

\* undeploy_with_rules has returned on a cluster without a HEAD commit, asked
\* to remove a rule the file holds.
C9_Witness ==
    /\ lastCall.op = "undeploy_with_rules"
    /\ ~head
    /\ lastCall.arg # {}
    /\ lastCall.arg \subseteq Rules(sparseFile)

\* C10: after deploy_all returns Ok on a cluster with a tracked file,
\* is_deployed is true.
C10_DeployAllThenDeployed ==
    (lastCall.op = "deploy_all" /\ lastCall.res = "Ok" /\ tree # {}) =>
        is_deployed(Cur)

\* deploy_all has returned Ok on a cluster whose tracked files were not on
\* disk: the checkout wrote them.
C10_Witness ==
    /\ lastCall.op = "deploy_all"
    /\ lastCall.res = "Ok"
    /\ tree # {}
    /\ tree \subseteq materialised

\* C12: after gitcall_interactive returns Ok, every newly staged path that did
\* not match the rules held at the sync is a rule of the sparse file, written
\* before a checkout ran; when every newly staged path matched, or none was
\* newly staged, the file is as it was and no checkout ran.
C12_GitcallSyncsNewFiles ==
    [][ (lastCall'.op = "gitcall_interactive" /\ lastCall'.res = "Ok") =>
            IF \E P \in index' \ index : ~path_matches(P, current_rules(sparseFile))
            THEN /\ \A P \in index' \ index :
                       ~path_matches(P, current_rules(sparseFile))
                           => P \in Rules(sparseFile')
                 /\ lastCall'.trace = <<"write", "checkout">>
            ELSE /\ sparseFile' = sparseFile
                 /\ lastCall'.trace = <<>> ]_vars

\* gitcall_interactive has returned Ok having added the rule of a newly
\* staged file to rules that did not cover it.
C12_Witness ==
    /\ lastCall.op = "gitcall_interactive"
    /\ lastCall.res = "Ok"
    /\ lastCall.trace = <<"write", "checkout">>
    /\ lastCall.arg \subseteq Rules(sparseFile)
    /\ Rules(sparseFile) \ lastCall.arg # {}

\* C13, as written: with the rules {"/*"} deployed, after
\* gitcall_interactive(["add", new]) returns Ok for a file new that was not
\* staged, new is a rule of the sparse file and a checkout has run.
C13_AddUnderAllAppendsRule ==
    [][ (/\ Rules(sparseFile) = {RuleAll}
         /\ is_deployed(Cur)
         /\ lastCall'.op = "gitcall_interactive"
         /\ lastCall'.res = "Ok"
         /\ index' \ index # {})
        => /\ index' \ index \subseteq Rules(sparseFile')
           /\ \E i \in 1..Len(lastCall'.trace) : lastCall'.trace[i] = "checkout" ]_vars

\* C13, amended: with the rules {"/*"}, after gitcall_interactive(["add", new])
\* returns Ok the sparse file is as it was, still the one rule "/*", and no
\* checkout has run: "/*" already covers the new file.
C13_AddUnderAllKeepsRules ==
    [][ (/\ Rules(sparseFile) = {RuleAll}
         /\ lastCall'.op = "gitcall_interactive"
         /\ lastCall'.res = "Ok")
        => /\ sparseFile' = sparseFile
           /\ lastCall'.trace = <<>> ]_vars

\* gitcall_interactive has returned Ok having staged a new file while the
\* rules {"/*"} were deployed.
C13_Witness ==
    /\ lastCall.op = "gitcall_interactive"
    /\ lastCall.kind = "newly staged"
    /\ lastCall.res = "Ok"
    /\ Rules(sparseFile) = {RuleAll}
    /\ is_deployed(Cur)

\* ------------------------------------------------------------------------
\* Properties of the matcher and of the argument expansion (under SpecApply).
\* ------------------------------------------------------------------------
MatcherCalls == {"path_matches", "drafter_path_matches"}

\* C14: path_matches with an empty rule list is false for every path, a file
\* or a directory, at any depth.
C14_EmptyRulesMatchNothing ==
    (lastCall.op \in MatcherCalls /\ lastCall.pre = <<>>) => lastCall.res = "false"

\* path_matches has answered for a nested path under the empty rule list.
C14_Witness ==
    /\ lastCall.op = "path_matches"
    /\ lastCall.pre = <<>>
    /\ lastCall.arg = {PathDeep}
    /\ lastCall.res = "false"

\* C15: path_matches with the rule list ["/*"] is true for every path under
\* the alias, at any directory depth.
C15_AllRuleMatchesEverything ==
    (lastCall.op \in MatcherCalls /\ lastCall.pre = RuleAll \o <<NL>>)
        => lastCall.res = "true"

\* path_matches has answered for a path two directories deep under ["/*"].
C15_Witness ==
    /\ lastCall.op = "path_matches"
    /\ lastCall.pre = RuleAll \o <<NL>>
    /\ lastCall.arg = {PathDeep}
    /\ lastCall.kind = "file"
    /\ lastCall.res = "true"

\* C16: with the rule set of "/etc/" and "!/etc/secret", path_matches is true
\* for etc/foo, false for etc/secret and false for other.
C16_ExclusionUnderDirectory ==
    (lastCall.op \in MatcherCalls /\ Rules(lastCall.pre) = {RuleEtc, RuleNotSecret})
        => /\ lastCall.arg = {PathEtcFoo} => lastCall.res = "true"
           /\ lastCall.arg = {PathEtcSecret} => lastCall.res = "false"
           /\ lastCall.arg = {PathOther} => lastCall.res = "false"

\* C17: expand_bin_args returns "--git-dir", the git directory, "--work-tree",
\* the alias, then the user arguments, with "--sparse" right after the first
\* of them when that one is "add", "rm" or "mv" and nothing inserted otherwise.
C17_ExpandBinArgs ==
    lastCall.op = "expand_bin_args" =>
        lastCall.trace =
            <<"--git-dir", lastCall.kind, "--work-tree", CHOOSE a \in lastCall.arg : TRUE>>
            \o (IF Len(lastCall.origin) > 0 /\ lastCall.origin[1] \in {"add", "rm", "mv"}
                THEN <<lastCall.origin[1], "--sparse">> \o Tail(lastCall.origin)
                ELSE lastCall.origin)

\* expand_bin_args has expanded ["mv", x] to seven arguments.
C17_Witness ==
    /\ lastCall.op = "expand_bin_args"
    /\ Len(lastCall.origin) = 2
    /\ lastCall.origin[1] = "mv"
    /\ Len(lastCall.trace) = 7
    /\ lastCall.trace[6] = "--sparse"

\* ------------------------------------------------------------------------
\* Properties of the cluster store (under SpecStore).
\* ------------------------------------------------------------------------
\* C18: remove_cluster(name) and use_cluster(name, action) with a name that
\* is not a key of the map return ClusterNotFound, leave the map and the
\* store directory as they were, and run nothing (the action not invoked).
C18_AbsentNameNotFound ==
    [][ (/\ lastCall'.op \in {"remove_cluster", "use_cluster"}
         /\ clusters[lastCall'.kind] = Absent)
        => /\ lastCall'.res = "ClusterNotFound"
           /\ lastCall'.trace = <<>>
           /\ clusters' = clusters
           /\ disk' = disk ]_vars

\* use_cluster has returned ClusterNotFound for a name whose directory is in
\* the store root although the map does not hold it.
C18_Witness ==
    /\ lastCall.op = "use_cluster"
    /\ lastCall.res = "ClusterNotFound"
    /\ disk[lastCall.kind].exists
    /\ Keys(clusters) # {}

\* C19: after remove_cluster(name) returns Ok for a name of the store, the
\* <name>.git directory is gone from the store root and name is not a key of
\* the map, so that a later open of the root does not find name.
C19_RemoveDeletesDirectory ==
    (lastCall.op = "remove_cluster" /\ lastCall.res = "Ok")
        => /\ clusters[lastCall.kind] = Absent
           /\ ~disk[lastCall.kind].exists
           /\ lastCall.kind \notin Keys(Opened(disk))

\* C20: Store::open called twice in a row returns two stores with the same
\* entries, one per <name>.git directory of the root, each with the
\* definition the directory holds.
C20_OpenTwiceSameStore ==
    (lastCall.op = "open" /\ lastCall.kind = "again")
        => /\ lastCall.res = "Ok"
           /\ lastCall.origin[1] = "Ok"
           /\ lastCall.arg = lastCall.origin[2]
           /\ lastCall.arg = Entries(Opened(disk))

\* ------------------------------------------------------------------------
\* Properties of Store::clone_cluster (under SpecClone).
\* ------------------------------------------------------------------------
NoDuplicates(s) == \A i, j \in 1..Len(s) : s[i] = s[j] => i = j

\* A call of clone_cluster has left its first locked block.
CloneBegun == lastCall.op = "clone_cluster" /\ lastCall.res = "pending"

DefaultRuleDeploys(names) ==
    [i \in 1..Len(names) |-> <<"deploy_default_rules", names[i]>>]

C29_CatFileReturnsBlob ==
    lastCall.op = "cat_file" =>
        \A path \in lastCall.arg :
            /\ path \in tree => lastCall.res = "Ok"
            /\ path \notin tree => lastCall.res = "BlobNotFound"

\* ------------------------------------------------------------------------
\* Properties of Git2Deployer::new (under SpecConfig).
\* ------------------------------------------------------------------------
ConfigTarget ==
    [showUntrackedFiles |-> "no", sparseCheckout |-> "true",
     updateSparsePath |-> "false"]

\* C30: after Git2Deployer::new returned Ok the configuration has
\* status.showUntrackedFiles = no, core.sparseCheckout = true and
\* advice.updateSparsePath = false, whatever the keys held before, and a
\* second construction directly after the first changes no value.
C30_ConfigAfterNew ==
    (lastCall.op = "new" /\ lastCall.res = "Ok")
        => /\ config = ConfigTarget
           /\ lastCall.kind = "again" => config = lastCall.pre[1]

\* ------------------------------------------------------------------------
\* Properties of re-invoked deployment methods (under SpecReinvoke).
\* ------------------------------------------------------------------------
Wrote(trace) == \E i \in 1..Len(trace) : trace[i] = "write"

C31_IsDeployedFalseOnFailure ==
    (/\ lastCall.op = "is_deployed"
     /\ \/ perm = "none"
        \/ lastCall.kind = "list failed"
        \/ \E rule \in Rules(sparseFile) : Unparsable(rule))
        => lastCall.res = "false"

C33_OrderOfRulesIrrelevant ==
    lastCall.op = "path_matches" =>
        \A path \in lastCall.arg :
            lastCall.res =
                Truth(matcher_path_matches(path, lastCall.kind = "dir",
                                           SortStrings(Rules(lastCall.pre))))

\* ------------------------------------------------------------------------
\* Further properties of the store (under SpecStore).
\* ------------------------------------------------------------------------
\* C34: when undeploy_all fails inside remove_cluster(name), the call
\* returns the error, name is still a key of the map with the definition it
\* had, and <name>.git still exists.
C34_FailedRemoveKeepsCluster ==
    (lastCall.op = "remove_cluster" /\ lastCall.res = "Cluster")
        => /\ clusters[lastCall.kind] # Absent
           /\ clusters[lastCall.kind] = disk[lastCall.kind].def
           /\ disk[lastCall.kind].exists

gitcall_interactive_syncing(st, staged, exitOk, gitOk) ==
    [out |-> SyncNewlyAdded(st, index, index \cup staged, gitOk),
     index |-> index \cup staged]

gitcall_interactive(st, staged, exitOk, gitOk) ==
    IF ~exitOk
    THEN [out |-> Outcome(st, "Syscall", <<>>), index |-> index \cup staged]
    ELSE [out |-> SyncNewlyAdded(st, index, index \cup staged, gitOk),
          index |-> index \cup staged]

GitcallKind(r, exitOk) ==
    IF exitOk THEN (IF r.index # index THEN "newly staged" ELSE "")
    ELSE (IF r.index # index THEN "failed, newly staged" ELSE "failed")

GitcallDone(r, staged, exitOk) ==
    /\ sparseFile' = r.out.file
    /\ workTree' = r.out.work
    /\ materialised' = r.out.mat
    /\ index' = r.index
    /\ lastCall' = Call("gitcall_interactive", GitcallKind(r, exitOk), staged,
                        r.out.res, sparseFile, r.out.trace, <<-1>>)

GitcallInteractive(staged, exitOk, gitOk) ==
    /\ staged \subseteq workTree
    /\ GitcallDone(gitcall_interactive(Cur, staged, exitOk, gitOk), staged, exitOk)
    /\ UNCHANGED <<perm, head, tree, include, clusters, disk, cloning, config>>

InitGitcall ==
    /\ sparseFile \in { Display([rules |-> S]) : S \in SUBSET RuleUniverse }
    /\ perm \in Perms
    /\ head = TRUE
    /\ tree = {}
    /\ index = {}
    /\ workTree \in SUBSET PathUniverse
    /\ materialised = {}
    /\ include = NoInclude
    /\ clusters = NoClusters
    /\ disk = EmptyRoot
    /\ cloning = NotCloning
    /\ config = NoConfig
    /\ lastCall = NoCall

NextGitcall ==
    \/ \E staged \in SUBSET PathUniverse, exitOk \in BOOLEAN, gitOk \in BOOLEAN :
           GitcallInteractive(staged, exitOk, gitOk)
    \/ \E path \in PathUniverse : UserWriteFile(path)
    \/ \E p \in Perms : Chmod(p)

SpecGitcall == InitGitcall /\ [][NextGitcall]_vars

\* C37: when the git child of gitcall_interactive fails, the call returns the
\* Syscall error, the sparse file keeps its content and no checkout runs, even
\* when the failed command staged new paths.
C37_FailedChildSkipsSync ==
    [][ (lastCall'.op = "gitcall_interactive"
         /\ lastCall'.kind \in {"failed", "failed, newly staged"}) =>
            /\ lastCall'.res = "Syscall"
            /\ sparseFile' = sparseFile
            /\ lastCall'.trace = <<>>
            /\ workTree' = workTree
            /\ materialised' = materialised ]_vars

\* A failed git command has staged a path that no rule of the readable sparse
\* file matches: a sync would have added its rule.
C37_Witness ==
    /\ lastCall.op = "gitcall_interactive"
    /\ lastCall.kind = "failed, newly staged"
    /\ lastCall.res = "Syscall"
    /\ perm = "rw"
    /\ \E p \in lastCall.arg \cap index : ~path_matches(p, current_rules(sparseFile))

\* C38: once init_cluster, remove_cluster or clone_cluster has returned,
\* whether with Ok or with an error, the names of the store map are the names
\* of the <name>.git directories under the root.
C38_MapNamesAreDirectories ==
    (/\ lastCall.op \in {"init_cluster", "remove_cluster", "clone_cluster"}
     /\ cloning.pc = "idle")
        => Keys(clusters) = Dirs(disk)

\* ------------------------------------------------------------------------
\* The deployer on a cluster with commits whose sparse file changes access
\* and whose checkouts may fail.
\* ------------------------------------------------------------------------
InitDeployFail ==
    /\ sparseFile = <<>>
    /\ perm = "rw"
    /\ head = TRUE
    /\ tree = PathUniverse
    /\ index = PathUniverse
    /\ workTree = {}
    /\ materialised = {}
    /\ include = NoInclude
    /\ clusters = NoClusters
    /\ disk = EmptyRoot
    /\ cloning = NotCloning
    /\ config = NoConfig
    /\ lastCall = NoCall

NextDeployFail ==
    \/ \E R \in RuleLists, gitOk \in BOOLEAN : DeployWithRules(R, gitOk)
    \/ \E R \in RuleLists, gitOk \in BOOLEAN : UndeployWithRules(R, gitOk)
    \/ \E gitOk \in BOOLEAN : DeployAll(gitOk)
    \/ \E p \in Perms : Chmod(p)

SpecDeployFail == InitDeployFail /\ [][NextDeployFail]_vars

\* The rule set each operation asks the editor for.
RuleSetAsked(op, R, old) ==
    CASE op = "deploy_with_rules"   -> old \cup R
      [] op = "undeploy_with_rules" -> old \ R
      [] OTHER                      -> {RuleAll}

\* C39: deploy_with_rules, undeploy_with_rules and deploy_all write the
\* sparse file before they invoke the checkout and never restore it: a failed
\* sparse edit gives the Sparse error with no checkout and the file as it
\* was, and a failed checkout gives the Syscall error with the file holding
\* the rule set the operation asked for.
C39_WriteThenCheckoutNoRollback ==
    [][ lastCall'.op \in {"deploy_with_rules", "undeploy_with_rules", "deploy_all"} =>
          /\ lastCall'.trace \in {<<>>, <<"checkout">>, <<"write", "checkout">>}
          /\ lastCall'.res = "Sparse" =>
                 /\ lastCall'.trace = <<>>
                 /\ sparseFile' = sparseFile
                 /\ workTree' = workTree
                 /\ materialised' = materialised
          /\ lastCall'.res = "Syscall" =>
                 /\ lastCall'.trace[Len(lastCall'.trace)] = "checkout"
                 /\ Rules(sparseFile') =
                        RuleSetAsked(lastCall'.op, lastCall'.arg, Rules(sparseFile)) ]_vars

\* deploy_with_rules has written a rule the file lacked and its checkout has
\* failed.
C39_Witness ==
    /\ lastCall.op = "deploy_with_rules"
    /\ lastCall.res = "Syscall"
    /\ lastCall.trace = <<"write", "checkout">>
    /\ lastCall.arg # {}
    /\ lastCall.arg \subseteq Rules(sparseFile)

====
